---- MODULE Spec2Model ----
(***************************************************************************)
(* A model of src/bert.py: the clustering pipeline of ModelProcessor       *)
(* (process_content_sentences, cluster_runner, run, run_embeddings) and    *)
(* the frequency summarizer of class summarize (get_summary,               *)
(* sort_sentences).                                                        *)
(*                                                                         *)
(* Strings are sequences of one-character strings, so that strip(),        *)
(* lower(), ' '.join() and the substring test `j in sentence` are computed *)
(* and not assumed.  Python's 0-based positions are kept 1-based here; the *)
(* places where index 0 matters (use_first) name FirstIndex.               *)
(*                                                                         *)
(* Every call has a frame holding its arguments and locals; the only       *)
(* state outside the frames is numpy's process-wide seed (np_seed) and the *)
(* behaviour of the external cluster selector (fitted).                    *)
(***************************************************************************)
EXTENDS Integers, Sequences, FiniteSets, TLC

VARIABLES frames, np_seed, fitted

vars == <<frames, np_seed, fitted>>

\* ------------------------------------------------------------------ bounds

\* Largest number of sentences of a get_summary input.
MaxSentences == 3
\* Largest max_sentences asked of get_summary.
MaxRequest == 4
\* Smallest max_sentences asked of get_summary is -MaxNegRequest.
MaxNegRequest == 1

\* ------------------------------------------------------------- sequences

Range(s) == {s[i] : i \in DOMAIN s}

Min2(a, b) == IF a < b THEN a ELSE b

Max2(a, b) == IF a > b THEN a ELSE b

\* All sequences over S of length 0..n.
SeqsUpTo(S, n) == UNION {[1..k -> S] : k \in 0..n}

RECURSIVE Flatten(_)
Flatten(ss) == IF ss = <<>> THEN <<>> ELSE Head(ss) \o Flatten(Tail(ss))

RECURSIVE SumOver(_, _)
\* The sum of f[x] over a finite set S.
SumOver(f, S) ==
    IF S = {} THEN 0
    ELSE LET x == CHOOSE y \in S : TRUE IN f[x] + SumOver(f, S \ {x})

\* Python's `x in list`.
InList(x, s) == \E i \in DOMAIN s : s[i] = x

\* Python's list.index(x): the first position holding x.
IndexOf(s, x) == CHOOSE i \in DOMAIN s : s[i] = x /\ \A k \in 1..(i - 1) : s[k] # x

\* Python's list.remove(x): drops the first element equal to x.
ListRemove(s, x) ==
    LET i == IndexOf(s, x)
    IN  SubSeq(s, 1, i - 1) \o SubSeq(s, i + 1, Len(s))

RECURSIVE InsertSorted(_, _)
InsertSorted(x, s) ==
    IF s = <<>> THEN <<x>>
    ELSE IF x <= Head(s) THEN <<x>> \o s
    ELSE <<Head(s)>> \o InsertSorted(x, Tail(s))

RECURSIVE SortAscending(_)
SortAscending(s) ==
    IF s = <<>> THEN <<>> ELSE InsertSorted(Head(s), SortAscending(Tail(s)))

\* Python's sorted() on a list of integers.
Sorted(s) == SortAscending(s)

StrictlyAscending(s) == \A i \in 1..(Len(s) - 1) : s[i] < s[i + 1]

NoDuplicates(s) == \A i, k \in DOMAIN s : i # k => s[i] # s[k]

RECURSIVE IsSubsequence(_, _)
\* a can be obtained from b by deleting elements.
IsSubsequence(a, b) ==
    IF a = <<>> THEN TRUE
    ELSE IF b = <<>> THEN FALSE
    ELSE IF Head(a) = Head(b) THEN IsSubsequence(Tail(a), Tail(b))
    ELSE IsSubsequence(a, Tail(b))

\* ---------------------------------------------------------------- strings

Space == " "

\* str.lower() on one character (the capitals the corpus uses).
LowerChar(ch) ==
    CASE ch = "T" -> "t"
      [] ch = "C" -> "c"
      [] OTHER -> ch

\* str.lower().
Lower(str) == [i \in DOMAIN str |-> LowerChar(str[i])]

\* Python's `j in text` on strings: j is a contiguous part of text.
IsSubstring(j, text) ==
    \E i \in 1..(Len(text) - Len(j) + 1) : SubSeq(text, i, i + Len(j) - 1) = j

RECURSIVE StripLeft(_)
StripLeft(str) ==
    IF str # <<>> /\ Head(str) = Space THEN StripLeft(Tail(str)) ELSE str

RECURSIVE StripRight(_)
StripRight(str) ==
    IF str # <<>> /\ str[Len(str)] = Space
    THEN StripRight(SubSeq(str, 1, Len(str) - 1)) ELSE str

\* str.strip().
Strip(str) == StripRight(StripLeft(str))

RECURSIVE Join(_)
\* ' '.join(list).
Join(ss) ==
    IF ss = <<>> THEN <<>>
    ELSE IF Len(ss) = 1 THEN ss[1]
    ELSE ss[1] \o <<Space>> \o Join(Tail(ss))

\* ------------------------------------------- frequency summarizer: the text

\* string.punctuation, as far as the corpus uses it.
Dot == <<".">>

punc == {Dot}

\* stopwords.words("english"), as far as the corpus uses it.
stop_words == {<<"t", "h", "e">>}

wThe == <<"T", "h", "e">>
wCat == <<"c", "a", "t">>
wSat == <<"s", "a", "t">>
wRan == <<"r", "a", "n">>
wDog == <<"d", "o", "g">>
wSlept == <<"s", "l", "e", "p", "t">>
wCats == <<"C", "a", "t", "s">>
wDogs == <<"d", "o", "g", "s">>

\* The sentences an input is made of, each as its tokens.  The first three
\* are "The cat sat. The cat ran. The dog slept."; "Cats ran." has a word
\* whose capital keeps it from matching its own lowercased table entry, and
\* "dogs sat." holds the table word "dog" only as a part of another word.
Corpus ==
    { <<wThe, wCat, wSat, Dot>>,
      <<wThe, wCat, wRan, Dot>>,
      <<wThe, wDog, wSlept, Dot>>,
      <<wCats, wRan, Dot>>,
      <<wDogs, wSat, Dot>> }

CatExample ==
    << <<wThe, wCat, wSat, Dot>>, <<wThe, wCat, wRan, Dot>>, <<wThe, wDog, wSlept, Dot>> >>

RECURSIVE SentenceText(_)
\* The text of a sentence: its words separated by one space, the
\* punctuation attached to the word before it.
SentenceText(tokens) ==
    IF tokens = <<>> THEN <<>>
    ELSE IF Len(tokens) = 1 THEN tokens[1]
    ELSE IF tokens[2] \in punc THEN tokens[1] \o SentenceText(Tail(tokens))
    ELSE tokens[1] \o <<Space>> \o SentenceText(Tail(tokens))

\* sent_tokenize(input): the texts of the input's sentences, in order.
sent_tokenize(input) == [i \in DOMAIN input |-> SentenceText(input[i])]

\* word_tokenize(s.lower()): every token of the input, lowercased.
word_tokenize_lower(input) ==
    LET toks == Flatten(input) IN [i \in DOMAIN toks |-> Lower(toks[i])]

\* ---------------------------------------- frequency summarizer: the scores

IsContentWord(w) == w \notin stop_words /\ w \notin punc

filtered_words(input) == SelectSeq(word_tokenize_lower(input), IsContentWord)

\* The occurrence count of every filtered word.  word_frequency is this
\* count divided by total_words = Len(filtered_words); every score of one
\* call has that same denominator, so scores are kept as their numerators.
word_count(input) ==
    LET fw == filtered_words(input)
    IN  [w \in Range(fw) |-> Cardinality({i \in DOMAIN fw : fw[i] = w})]

\* tracker[i]: the sum of the frequencies of the table words that are a
\* substring of sentence i's original text.
SentenceScore(text, input) ==
    LET wc == word_count(input)
    IN  SumOver(wc, {j \in DOMAIN wc : IsSubstring(j, text)})

InitialTracker(input) ==
    LET so == sent_tokenize(input)
    IN  [i \in DOMAIN so |-> SentenceScore(so[i], input)]

\* max(enumerate(tracker), key=itemgetter(1)): the first position of the
\* largest value.
ArgMax(tracker) ==
    CHOOSE i \in DOMAIN tracker :
        /\ \A k \in DOMAIN tracker : tracker[k] <= tracker[i]
        /\ \A k \in 1..(i - 1) : tracker[k] < tracker[i]

\* One iteration of the selection loop on (tracker, output_sentence).
SelectionStep(st, sentences_original, max_sentences) ==
    LET index == ArgMax(st.tracker)
        take  == /\ Len(st.output_sentence) + 1 <= max_sentences
                 /\ ~InList(sentences_original[index], st.output_sentence)
        out   == IF take THEN Append(st.output_sentence, sentences_original[index])
                 ELSE st.output_sentence
    IN  [ output_sentence |-> out,
          stop    |-> Len(out) > max_sentences,
          tracker |-> IF Len(out) > max_sentences THEN st.tracker
                      ELSE ListRemove(st.tracker, st.tracker[index]) ]

\* sorted_sent_arr with the call of sorted() left out.
sorted_sent_arr_unsorted(original, output) ==
    LET found == SelectSeq(output, LAMBDA s : InList(s, original))
    IN  [i \in DOMAIN found |-> IndexOf(original, found[i])]

\* The positions in original of the sentences of output, sorted.
sorted_sent_arr(original, output) ==
    LET found == SelectSeq(output, LAMBDA s : InList(s, original))
    IN  Sorted([i \in DOMAIN found |-> IndexOf(original, found[i])])

sort_sentences(original, output) ==
    LET arr == sorted_sent_arr(original, output)
    IN  [i \in DOMAIN arr |-> original[arr[i]]]

RECURSIVE SelectionLoop(_, _, _, _)
\* The selection loop, `todo` iterations of it, run to its end.
SelectionLoop(st, sentences_original, max_sentences, todo) ==
    IF todo = 0 \/ st.stop THEN st
    ELSE SelectionLoop(SelectionStep(st, sentences_original, max_sentences),
                       sentences_original, max_sentences, todo - 1)

\* get_summary as one function of its arguments.
get_summary(input, max_sentences) ==
    LET so  == sent_tokenize(input)
        tr  == InitialTracker(input)
        end == SelectionLoop([tracker |-> tr, output_sentence |-> <<>>, stop |-> FALSE],
                             so, max_sentences, Len(tr))
    IN  sort_sentences(so, end.output_sentence)

\* --------------------------------------------------- pipeline: the pieces

\* Largest number of sentence units of a pipeline body.
MaxBody == 3
\* Largest number of sentence units of a document given to
\* process_content_sentences.
MaxDoc == 4

\* The units doc.sents yields, untrimmed: trimmed lengths 1, 2, 3 and 2.
uA == <<"a">>
uB == <<" ", "b", "b", " ">>
uC == <<"c", "c", "c">>
uD == <<"d", "d", " ">>

BodyUnits == {uA, uB, uC}

DocUnits == {uA, uB, uC, uD}

MinLengths == {0, 1}

MaxLengths == {3, 4}

\* The length test with the bounds themselves let through.
LengthInBoundsInclusive(len, min_length, max_length) ==
    max_length >= len /\ len >= min_length

\* The length test of the comprehension: max_length > len > min_length.
LengthInBounds(len, min_length, max_length) == max_length > len /\ len > min_length

\* [c.string.strip() for c in doc.sents if max_length > len(...) > min_length]
process_content_sentences(sents, min_length, max_length) ==
    LET stripped == [i \in DOMAIN sents |-> Strip(sents[i])]
    IN  SelectSeq(stripped, LAMBDA s : LengthInBounds(Len(s), min_length, max_length))

\* self.sentence_handler(body, min_length, max_length): the external
\* SentenceHandler, whose contract is the filter of process_content_sentences.
sentence_handler(body, min_length, max_length) ==
    process_content_sentences(body, min_length, max_length)

\* run and run_embeddings without their `if sentences:`.
HasSentencesUnchecked(sentences) == TRUE

\* `if sentences:` of run and run_embeddings.
HasSentences(sentences) == sentences # <<>>

\* self.model(content, self.hidden, self.reduce_option): the external model,
\* one vector per sentence, a function of the sentence alone.
BertParent(content) == [i \in DOMAIN content |-> <<Len(content[i])>>]

\* random_state's default.
DefaultRandomState == 12345

\* Python's index 0 of content, in this model's 1-based positions.
FirstIndex == 1

\* Lines 97-98: both arms of the conditional are num_sentences.
AdjustedNumSentences(num_sentences, use_first) ==
    IF num_sentences # <<>>
    THEN (IF use_first THEN num_sentences ELSE num_sentences)
    ELSE num_sentences

\* The number of clusters the external selector forms: the explicit count
\* if given (at most one per vector), else the ratio (in percent) of the
\* vectors, at least one.
ClusterCount(n, ratio, num_sentences) ==
    IF num_sentences # <<>> THEN Min2(num_sentences[1], n)
    ELSE Max2((n * ratio) \div 100, 1)

\* What ClusterFeatures(...).cluster(...) may return: k distinct positions
\* of the n vectors, in any order.
ClusterOutputs(n, k) ==
    {s \in [1..k -> 1..n] : \A i, j \in 1..k : i # j => s[i] # s[j]}

\* The selector seeded from numpy's process-wide seed, not from the argument.
ClusterSeedGlobal(self_random_state, global_seed) == global_seed

\* The seed handed to ClusterFeatures: random_state=self.random_state.
ClusterSeed(self_random_state, global_seed) == self_random_state

\* Lines 103-109 without the branch for an empty selection.
UseFirstNonEmptyOnly(hidden_args, use_first) ==
    IF use_first /\ hidden_args # <<>> /\ hidden_args[1] # FirstIndex
    THEN <<FirstIndex>> \o hidden_args
    ELSE hidden_args

\* Lines 103-109.
UseFirst(hidden_args, use_first) ==
    IF use_first
    THEN IF hidden_args = <<>> THEN Append(hidden_args, FirstIndex)
         ELSE IF hidden_args[1] # FirstIndex THEN <<FirstIndex>> \o hidden_args
         ELSE hidden_args
    ELSE hidden_args

\* Lines 111-112.
Pick(list, hidden_args) == [i \in DOMAIN hidden_args |-> list[hidden_args[i]]]

ValidAggregates == {"mean", "median", "max", "min"}

Aggregates == {"None", "sum"} \cup ValidAggregates

Column(embeddings) == [i \in DOMAIN embeddings |-> embeddings[i][1]]

RECURSIVE SeqSum(_)
SeqSum(s) == IF s = <<>> THEN 0 ELSE Head(s) + SeqSum(Tail(s))

RECURSIVE SeqMax(_)
SeqMax(s) == IF Len(s) = 1 THEN s[1] ELSE Max2(Head(s), SeqMax(Tail(s)))

RECURSIVE SeqMin(_)
SeqMin(s) == IF Len(s) = 1 THEN s[1] ELSE Min2(Head(s), SeqMin(Tail(s)))

\* aggregate_map[aggregate](embeddings, axis=0) on a non-empty array: one
\* number per column, as the fraction <<numerator, denominator>>.
aggregate_map(aggregate, embeddings) ==
    LET col == Column(embeddings)
        srt == Sorted(col)
        n   == Len(col)
        mid == (n + 1) \div 2
    IN  CASE aggregate = "mean"   -> << <<SeqSum(col), n>> >>
          [] aggregate = "max"    -> << <<SeqMax(col), 1>> >>
          [] aggregate = "min"    -> << <<SeqMin(col), 1>> >>
          [] aggregate = "median" ->
                IF n % 2 = 1 THEN << <<srt[mid], 1>> >>
                ELSE << <<srt[mid] + srt[mid + 1], 2>> >>

\* ------------------------------------------------------------- the frames

Calls == {1, 2}

NoFrame ==
    [ op |-> "off", pc |-> "off",
      \* get_summary
      input |-> <<>>, max_sentences |-> 0, sentences_original |-> <<>>,
      tracker |-> <<>>, output_sentence |-> <<>>, i |-> 0, n |-> 0,
      stopped |-> FALSE, warned |-> FALSE,
      \* ModelProcessor
      random_state_arg |-> 0, random_state |-> 0,
      body |-> <<>>, min_length |-> 0, max_length |-> 0, use_first |-> FALSE,
      ratio |-> 0, num_sentences |-> <<>>, algorithm |-> "kmeans",
      aggregate |-> "None",
      content |-> <<>>, hidden_args |-> <<>>, sentences |-> <<>>,
      embeddings |-> <<>>, model_calls |-> 0, cluster_calls |-> 0,
      \* numpy's seed when this call ran the selector (not read by the code)
      np_seed_then |-> 0,
      \* the outcome
      ret_kind |-> "none", ret |-> <<>>, error |-> "none" ]

Set(c, fr) == frames' = [frames EXCEPT ![c] = fr]

\* ----------------------------------------------- actions: summarize

\* get_summary, lines 327-354: tokenize, build the table, score.
GetSummaryScore(c) ==
    LET fr == frames[c]
        so == sent_tokenize(fr.input)
        tr == InitialTracker(fr.input)
    IN  /\ fr.op = "get_summary" /\ fr.pc = "call"
        /\ Set(c, [fr EXCEPT !.pc = "loop",
                             !.sentences_original = so,
                             !.warned = fr.max_sentences > Len(so),
                             !.tracker = tr,
                             !.output_sentence = <<>>,
                             !.i = 0,
                             !.n = Len(tr)])
        /\ UNCHANGED <<np_seed, fitted>>

\* get_summary, lines 359-365: one iteration of the selection loop.
GetSummarySelect(c) ==
    LET fr == frames[c]
        st == SelectionStep(fr, fr.sentences_original, fr.max_sentences)
    IN  /\ fr.op = "get_summary" /\ fr.pc = "loop"
        /\ fr.i < fr.n /\ ~fr.stopped
        /\ Set(c, [fr EXCEPT !.output_sentence = st.output_sentence,
                             !.tracker = st.tracker,
                             !.stopped = st.stop,
                             !.i = fr.i + 1])
        /\ UNCHANGED <<np_seed, fitted>>

\* get_summary, lines 366-367: sort_sentences and return.
GetSummaryReturn(c) ==
    LET fr == frames[c]
    IN  /\ fr.op = "get_summary" /\ fr.pc = "loop"
        /\ (fr.i = fr.n \/ fr.stopped)
        /\ Set(c, [fr EXCEPT !.pc = "done",
                             !.ret_kind = "list",
                             !.ret = sort_sentences(fr.sentences_original,
                                                    fr.output_sentence)])
        /\ UNCHANGED <<np_seed, fitted>>

\* ------------------------------------------- actions: ModelProcessor

\* __init__, lines 58-63.
Construct(c) ==
    LET fr == frames[c]
    IN  /\ fr.op \in {"run", "run_embeddings"} /\ fr.pc = "new"
        /\ np_seed' = fr.random_state_arg
        /\ Set(c, [fr EXCEPT !.pc = "call", !.random_state = fr.random_state_arg])
        /\ UNCHANGED fitted

\* Lines 179-181 and 216-218: segment, then branch on `if sentences`.
Segment(c) ==
    LET fr == frames[c]
        ss == sentence_handler(fr.body, fr.min_length, fr.max_length)
    IN  /\ fr.op \in {"run", "run_embeddings"} /\ fr.pc = "call"
        /\ Set(c, [fr EXCEPT !.content = ss,
                             !.sentences = ss,
                             !.pc = IF HasSentences(ss) THEN "cluster" ELSE "return"])
        /\ UNCHANGED <<np_seed, fitted>>

\* cluster_runner, lines 97-114.  The selector is deterministic: what it
\* returned for (vectors, algorithm, seed, k) it returns again.
ClusterRunner(c) ==
    LET fr     == frames[c]
        num    == AdjustedNumSentences(fr.num_sentences, fr.use_first)
        hidden == BertParent(fr.content)
        k      == ClusterCount(Len(hidden), fr.ratio, num)
        key    == <<hidden, fr.algorithm, ClusterSeed(fr.random_state, np_seed), k>>
    IN  /\ fr.op \in {"run", "run_embeddings"} /\ fr.pc = "cluster"
        /\ \E sel \in ClusterOutputs(Len(hidden), k) :
              /\ key \in DOMAIN fitted => sel = fitted[key]
              /\ fitted' = (key :> sel) @@ fitted
              /\ LET hidden_args == UseFirst(sel, fr.use_first)
                 IN  Set(c, [fr EXCEPT !.pc = "return",
                                       !.hidden_args = hidden_args,
                                       !.sentences = Pick(fr.content, hidden_args),
                                       !.embeddings = Pick(hidden, hidden_args),
                                       !.model_calls = fr.model_calls + 1,
                                       !.np_seed_then = np_seed,
                                       !.cluster_calls = fr.cluster_calls + 1])
        /\ UNCHANGED np_seed

\* run, line 221.
RunReturn(c) ==
    LET fr == frames[c]
    IN  /\ fr.op = "run" /\ fr.pc = "return"
        /\ Set(c, [fr EXCEPT !.pc = "done",
                             !.ret_kind = "str",
                             !.ret = Join(fr.sentences)])
        /\ UNCHANGED <<np_seed, fitted>>

\* run_embeddings, lines 184-191.
EmbeddingsOutcome(fr) ==
    IF ~HasSentences(fr.content) THEN [kind |-> "None", ret |-> <<>>, error |-> "none"]
    ELSE IF fr.aggregate = "None"
    THEN [kind |-> "array", ret |-> fr.embeddings, error |-> "none"]
    ELSE IF fr.aggregate \notin ValidAggregates
    THEN [kind |-> "raise", ret |-> <<>>, error |-> "AssertionError"]
    ELSE IF fr.embeddings = <<>>
    THEN IF fr.aggregate \in {"max", "min"}
         THEN [kind |-> "raise", ret |-> <<>>, error |-> "ValueError"]
         ELSE [kind |-> "vector", ret |-> << <<0, 0>> >>, error |-> "none"]
    ELSE [kind |-> "vector", ret |-> aggregate_map(fr.aggregate, fr.embeddings),
          error |-> "none"]

RunEmbeddingsReturn(c) ==
    LET fr  == frames[c]
        out == EmbeddingsOutcome(fr)
    IN  /\ fr.op = "run_embeddings" /\ fr.pc = "return"
        /\ Set(c, [fr EXCEPT !.pc = "done",
                             !.ret_kind = out.kind,
                             !.ret = out.ret,
                             !.error = out.error])
        /\ UNCHANGED <<np_seed, fitted>>

\* process_content_sentences, lines 74-76, on the sentence units of the
\* parsed document.
ProcessContentSentences(c) ==
    LET fr == frames[c]
    IN  /\ fr.op = "process_content_sentences" /\ fr.pc = "call"
        /\ Set(c, [fr EXCEPT !.pc = "done",
                             !.ret_kind = "list",
                             !.ret = process_content_sentences(
                                         fr.body, fr.min_length, fr.max_length)])
        /\ UNCHANGED <<np_seed, fitted>>

\* --------------------------------------------------------- specifications

GetSummaryFrames(inputs, requests) ==
    { [NoFrame EXCEPT !.op = "get_summary", !.pc = "call",
                      !.input = inp, !.max_sentences = m] :
        inp \in inputs, m \in requests }

\* (ratio in percent, num_sentences): the default ratio, the whole text, and
\* explicit counts.
CountArgs == { <<20, <<>> >>, <<100, <<>> >>, <<20, <<0>> >>, <<20, <<1>> >>, <<20, <<2>> >> }

PipelineFrames(bodies, seeds, algorithms) ==
    { [NoFrame EXCEPT !.op = o[1], !.pc = "new", !.aggregate = o[2],
                      !.body = b, !.min_length = lo, !.max_length = hi,
                      !.use_first = uf, !.ratio = cnt[1], !.num_sentences = cnt[2],
                      !.algorithm = alg, !.random_state_arg = sd] :
        o \in ({<<"run", "None">>} \cup {<<"run_embeddings", a>> : a \in Aggregates}),
        b \in bodies, lo \in MinLengths, hi \in MaxLengths, uf \in BOOLEAN,
        cnt \in CountArgs, alg \in algorithms, sd \in seeds }

SegmentFrames ==
    { [NoFrame EXCEPT !.op = "process_content_sentences", !.pc = "call",
                      !.body = b, !.min_length = lo, !.max_length = hi] :
        b \in SeqsUpTo(DocUnits, MaxDoc), lo \in MinLengths, hi \in MaxLengths }

Alone(fr) == (1 :> fr) @@ (2 :> NoFrame)

\* One get_summary call.
InitFallback ==
    /\ \E fr \in GetSummaryFrames(SeqsUpTo(Corpus, MaxSentences),
                                  (0 - MaxNegRequest)..MaxRequest) :
          frames = Alone(fr)
    /\ np_seed = 0
    /\ fitted = <<>>

NextFallback ==
    \E c \in Calls : GetSummaryScore(c) \/ GetSummarySelect(c) \/ GetSummaryReturn(c)

SpecFallback == InitFallback /\ [][NextFallback]_vars

\* One run or run_embeddings call on a fresh ModelProcessor.
InitPipeline ==
    /\ \E fr \in PipelineFrames(SeqsUpTo(BodyUnits, MaxBody), {DefaultRandomState},
                                {"kmeans"}) :
          frames = Alone(fr)
    /\ np_seed = 0
    /\ fitted = <<>>

NextPipeline ==
    \E c \in Calls :
        \/ Construct(c)
        \/ Segment(c)
        \/ ClusterRunner(c)
        \/ RunReturn(c)
        \/ RunEmbeddingsReturn(c)

SpecPipeline == InitPipeline /\ [][NextPipeline]_vars

\* One process_content_sentences call.
InitSegment ==
    /\ \E fr \in SegmentFrames : frames = Alone(fr)
    /\ np_seed = 0
    /\ fitted = <<>>

NextSegment == \E c \in Calls : ProcessContentSentences(c)

SpecSegment == InitSegment /\ [][NextSegment]_vars

\* Two calls at once: any of get_summary, run and run_embeddings, each
\* pipeline call on its own ModelProcessor, interleaved step by step.
ConcInputs == { CatExample, << <<wThe, wDog, wSlept, Dot>>, <<wThe, wCat, wSat, Dot>> >> }

ConcRequests == {1, 2}

ConcBodies == { <<uB, uC>>, <<uC, uA, uB>> }

ConcSeeds == {DefaultRandomState, 7}

ConcPipelineFrames ==
    { fr \in PipelineFrames(ConcBodies, ConcSeeds, {"kmeans"}) :
        /\ fr.aggregate \in {"None", "mean"}
        /\ fr.min_length = 0 /\ fr.max_length = 4
        /\ fr.num_sentences = <<1>> }

ConcFrames == GetSummaryFrames(ConcInputs, ConcRequests) \cup ConcPipelineFrames

InitConc ==
    /\ \E f1 \in ConcFrames, f2 \in ConcFrames : frames = (1 :> f1) @@ (2 :> f2)
    /\ np_seed = 0
    /\ fitted = <<>>

NextConc ==
    \E c \in Calls :
        \/ GetSummaryScore(c)
        \/ GetSummarySelect(c)
        \/ GetSummaryReturn(c)
        \/ Construct(c)
        \/ Segment(c)
        \/ ClusterRunner(c)
        \/ RunReturn(c)
        \/ RunEmbeddingsReturn(c)

SpecConc == InitConc /\ [][NextConc]_vars

\* ------------------------------------------------------------------ claims

IsPipeline(fr) == fr.op \in {"run", "run_embeddings"}

Segmented(fr) == IsPipeline(fr) /\ fr.pc \notin {"new", "call"}

Clustered(fr) == IsPipeline(fr) /\ fr.pc \in {"return", "done"} /\ HasSentences(fr.content)

SummaryDone(fr) == fr.op = "get_summary" /\ fr.pc = "done"

\* C1: get_summary with max_sentences >= 1 on an input of n distinct
\* sentences returns exactly min(max_sentences, n) sentences, and no
\* returned sentence scores lower than a sentence left out.
C1_HighestScoring ==
    \A c \in Calls :
        LET fr == frames[c]
            so == fr.sentences_original
            score(text) == SentenceScore(text, fr.input)
        IN  (SummaryDone(fr) /\ fr.max_sentences >= 1) =>
                /\ Len(fr.ret) = Min2(fr.max_sentences, Cardinality(Range(so)))
                /\ \A r \in Range(fr.ret) : \A s \in Range(so) \ Range(fr.ret) :
                       score(r) >= score(s)

\* C2: get_summary with max_sentences greater than the number of sentences
\* does not fail, warns, and returns all sentences in their original order
\* (stated for inputs whose sentences are pairwise different).
C2_AllSentencesWhenOverAsked ==
    \A c \in Calls :
        LET fr == frames[c]
            so == fr.sentences_original
        IN  (SummaryDone(fr) /\ fr.max_sentences > Len(so) /\ NoDuplicates(so)) =>
                /\ fr.error = "none"
                /\ fr.warned
                /\ fr.ret = so

\* C3: run_embeddings with an aggregate that is none of mean, median, max,
\* min fails with a configuration error before the model or the cluster
\* selector has run, for every body.
C3_AggregateFailsFast ==
    \A c \in Calls :
        LET fr == frames[c]
        IN  (fr.op = "run_embeddings" /\ fr.aggregate \notin (ValidAggregates \cup {"None"})) =>
                /\ fr.model_calls = 0
                /\ fr.cluster_calls = 0
                /\ fr.pc = "done" => (fr.ret_kind = "raise" /\ fr.error = "AssertionError")

\* C4: whatever order the selector returns its indices in, and for both
\* values of use_first, cluster_runner returns sentences and embeddings in
\* strictly ascending original index order, none twice.
C4_AscendingSelection ==
    \A c \in Calls :
        LET fr == frames[c]
        IN  Clustered(fr) =>
                /\ StrictlyAscending(fr.hidden_args)
                /\ fr.sentences = Pick(fr.content, fr.hidden_args)
                /\ fr.embeddings = Pick(BertParent(fr.content), fr.hidden_args)

\* C5: get_summary with max_sentences <= 0 is rejected with an error
\* surfaced to the caller instead of returning a result.
C5_NonPositiveRejected ==
    \A c \in Calls :
        LET fr == frames[c]
        IN  (SummaryDone(fr) /\ fr.max_sentences <= 0) =>
                (fr.ret_kind = "raise" /\ fr.error # "none")

\* C6: what get_summary returns is a duplicate-free subsequence of the
\* original sentence list: only sentences of the input, in the input's
\* relative order, whatever order the selection picked them in.
C6_OrderedSubsequence ==
    \A c \in Calls :
        LET fr == frames[c]
        IN  SummaryDone(fr) =>
                /\ Range(fr.ret) \subseteq Range(fr.sentences_original)
                /\ NoDuplicates(fr.ret)
                /\ IsSubsequence(fr.ret, fr.sentences_original)

\* C6 witness: two or more sentences returned, picked in another order than
\* the one they are returned in.
C6_PickedOutOfOrder ==
    \E c \in Calls :
        LET fr == frames[c]
        IN  SummaryDone(fr) /\ Len(fr.ret) >= 2 /\ fr.output_sentence # fr.ret

\* C7: when segmentation yields no sentence, run returns the empty string
\* and run_embeddings returns None, neither raises, and neither the model
\* nor the cluster selector is invoked.
C7_EmptyInput ==
    \A c \in Calls :
        LET fr == frames[c]
        IN  (Segmented(fr) /\ fr.content = <<>>) =>
                /\ fr.pc # "cluster"
                /\ fr.model_calls = 0
                /\ fr.cluster_calls = 0
                /\ fr.pc = "done" =>
                      /\ fr.error = "none"
                      /\ fr.op = "run" => (fr.ret_kind = "str" /\ fr.ret = <<>>)
                      /\ fr.op = "run_embeddings" => fr.ret_kind = "None"

\* C7 witness: run_embeddings has returned None for a body whose units were
\* all filtered out, with an aggregate that is not a valid one.
C7_NoneForFilteredBody ==
    \E c \in Calls :
        LET fr == frames[c]
        IN  /\ fr.op = "run_embeddings" /\ fr.pc = "done"
            /\ fr.body # <<>> /\ fr.content = <<>>
            /\ fr.aggregate = "sum"
            /\ fr.ret_kind = "None"

\* C8: run with num_sentences = 1 on a body of two surviving sentences
\* returns exactly one of the two, and with use_first the first one,
\* whichever index the selector picked.
C8_ExactlyOneSentence ==
    \A c \in Calls :
        LET fr == frames[c]
        IN  (fr.op = "run" /\ fr.pc = "done" /\ Len(fr.content) = 2
                 /\ fr.num_sentences = <<1>>) =>
                /\ fr.ret \in {fr.content[1], fr.content[2]}
                /\ fr.use_first => fr.ret = fr.content[FirstIndex]

PipelineAlone(fr, sel) ==
    LET content     == sentence_handler(fr.body, fr.min_length, fr.max_length)
        hidden_args == UseFirst(sel, fr.use_first)
        sentences   == IF HasSentences(content) THEN Pick(content, hidden_args) ELSE content
        embeddings  == IF HasSentences(content)
                       THEN Pick(BertParent(content), hidden_args) ELSE <<>>
    IN  IF fr.op = "run"
        THEN [kind |-> "str", ret |-> Join(sentences), error |-> "none"]
        ELSE EmbeddingsOutcome([content |-> content, aggregate |-> fr.aggregate,
                                embeddings |-> embeddings])

\* The selector's question of a call that runs alone: its own vectors,
\* algorithm, random_state and cluster count.
OwnKey(fr) ==
    LET hidden == BertParent(sentence_handler(fr.body, fr.min_length, fr.max_length))
    IN  << hidden, fr.algorithm, fr.random_state_arg,
           ClusterCount(Len(hidden), fr.ratio,
                        AdjustedNumSentences(fr.num_sentences, fr.use_first)) >>

Outcome(fr) == [kind |-> fr.ret_kind, ret |-> fr.ret, error |-> fr.error]

\* C9: two interleaved calls each return what they return alone: a
\* get_summary call the value of get_summary on its arguments, a pipeline
\* call the value of its arguments and of the selector's answer for its own
\* vectors, algorithm, random_state and count, whatever the other call did
\* to numpy's process-wide seed in between.
C9_CallsIndependent ==
    \A c \in Calls :
        LET fr == frames[c]
        IN  fr.pc = "done" =>
                IF fr.op = "get_summary"
                THEN fr.ret_kind = "list" /\ fr.ret = get_summary(fr.input, fr.max_sentences)
                ELSE IF ~HasSentences(fr.content)
                THEN Outcome(fr) = PipelineAlone(fr, <<>>)
                ELSE /\ OwnKey(fr) \in DOMAIN fitted
                     /\ Outcome(fr) = PipelineAlone(fr, fitted[OwnKey(fr)])

\* C9 witness: two run calls on the same body with different random_state,
\* both finished, the first having run the selector after the second
\* processor's construction had reseeded numpy, and the two summaries differ.
C9_InterleavedSeeds ==
    LET f1 == frames[1]
        f2 == frames[2]
    IN  /\ f1.op = "run" /\ f2.op = "run"
        /\ f1.pc = "done" /\ f2.pc = "done"
        /\ f1.body = f2.body /\ f1.use_first = f2.use_first
        /\ f1.random_state # f2.random_state
        /\ f1.np_seed_then = f2.random_state
        /\ f1.ret # f2.ret

\* C11: for non-empty content, with use_first the indices cluster_runner
\* uses are index 0 together with every index the selector returned (and
\* no other; an empty selection becomes exactly index 0); without use_first
\* they are the selector's list itself, nothing added or removed.
C11_UseFirstHandling ==
    \A c \in Calls :
        LET fr == frames[c]
        IN  Clustered(fr) =>
                /\ OwnKey(fr) \in DOMAIN fitted
                /\ LET sel == fitted[OwnKey(fr)]
                   IN  IF fr.use_first
                       THEN /\ Range(fr.hidden_args) = Range(sel) \cup {FirstIndex}
                            /\ sel = <<>> => fr.hidden_args = <<FirstIndex>>
                       ELSE fr.hidden_args = sel

\* C11 witness: with use_first, the selector returned two or more indices,
\* index 0 not among them, and cluster_runner has put it in front.
C11_FirstInserted ==
    \E c \in Calls :
        LET fr == frames[c]
        IN  /\ Clustered(fr) /\ fr.use_first
            /\ OwnKey(fr) \in DOMAIN fitted
            /\ Len(fitted[OwnKey(fr)]) >= 2
            /\ FirstIndex \notin Range(fitted[OwnKey(fr)])
            /\ fr.hidden_args = <<FirstIndex>> \o fitted[OwnKey(fr)]

====
